---- MODULE Spec2Model ----
(***************************************************************************)
(* A model of the single-operand contractors of src/src/contractors.rs     *)
(* (Identity, Permutation, Summation, Diagonalization, ViewAndSummation,   *)
(* SingletonContraction) and of tensordot of src/src/lib.rs.               *)
(*                                                                         *)
(* A tensor is a record [shape, strides, offset, data]: `data` is the      *)
(* element buffer, the element at the multi-index idx (0-based, one entry  *)
(* per axis) is data[offset + SUM idx[a] * strides[a]] (0-based position). *)
(* Index labels (Rust `char`) are numbered 1, 2, ... by first occurrence   *)
(* in the operand.  Axis numbers are 0-based as in the source.  A panic    *)
(* (assert!, unwrap() on None/Err, index out of bounds) is the value       *)
(* Panicked.                                                               *)
(***************************************************************************)
EXTENDS Integers, Sequences, FiniteSets, TLC

\* Largest number of axes of an operand of the singleton contractors.
MaxRank == 2
\* Largest extent of an axis (extents range over 0..MaxDim).
MaxDim == 2
\* Largest number of axes of an operand of tensordot.
MaxPairRank == 2

----------------------------------------------------------------------------
(* Sequences of integers *)

RECURSIVE Prod(_)
Prod(s) == IF s = <<>> THEN 1 ELSE Head(s) * Prod(Tail(s))

RECURSIVE SumSeq(_)
SumSeq(s) == IF s = <<>> THEN 0 ELSE Head(s) + SumSeq(Tail(s))

\* s without its element number a (1-based).
RemoveAt(s, a) == SubSeq(s, 1, a - 1) \o SubSeq(s, a + 1, Len(s))

\* s with v put in front of its element number a (1-based).
InsertAt(s, a, v) == SubSeq(s, 1, a - 1) \o <<v>> \o SubSeq(s, a, Len(s))

\* Iterator::position: the 0-based place of the first element equal to c,
\* -1 for None.
Position(s, c) ==
    IF \E i \in 1..Len(s) : s[i] = c
    THEN (CHOOSE i \in 1..Len(s) : s[i] = c /\ \A j \in 1..(i - 1) : s[j] # c) - 1
    ELSE -1

\* (0..n).collect()
Range(n) == [i \in 1..n |-> i - 1]

----------------------------------------------------------------------------
(* Tensors (ndarray ArrayBase over IxDyn) *)

Panicked == [panic |-> TRUE]

IsPanic(x) == x.panic

Tensor(shape, strides, offset, data) ==
    [panic |-> FALSE, shape |-> shape, strides |-> strides,
     offset |-> offset, data |-> data]

\* Row-major strides of an owned array: the stride of an axis is the product
\* of the extents after it, so an axis followed by an axis of extent 0 has
\* stride 0.  (Newer ndarray versions give an array with a zero extent
\* all-zero strides: more zero strides, never fewer.)
default_strides(shape) ==
    [a \in 1..Len(shape) |-> Prod(SubSeq(shape, a + 1, Len(shape)))]

\* Column-major strides.
fortran_strides(shape) ==
    [a \in 1..Len(shape) |-> Prod(SubSeq(shape, 1, a - 1))]

\* The multi-index of the k-th element (k from 0) in row-major order.
Unravel(k, shape) ==
    [a \in 1..Len(shape) |->
        (k \div Prod(SubSeq(shape, a + 1, Len(shape)))) % shape[a]]

\* The multi-index of the k-th element (k from 0) in column-major order.
UnravelF(k, shape) ==
    [a \in 1..Len(shape) |->
        (k \div Prod(SubSeq(shape, 1, a - 1))) % shape[a]]

\* The row-major number of a multi-index.
Ravel(idx, shape) ==
    SumSeq([a \in 1..Len(shape) |->
               idx[a] * Prod(SubSeq(shape, a + 1, Len(shape)))])

\* All multi-indices of a shape (none when an extent is 0, <<>> alone for
\* rank 0).
Indices(shape) == { Unravel(k, shape) : k \in 0..(Prod(shape) - 1) }

\* Indexing: tensor[idx].
At(t, idx) ==
    t.data[t.offset + SumSeq([a \in 1..Len(idx) |-> idx[a] * t.strides[a]]) + 1]

ndim(t) == Len(t.shape)

\* The elements in logical (row-major) order: tensor.iter().
Iter(t) == [k \in 1..Prod(t.shape) |-> At(t, Unravel(k - 1, t.shape))]

\* Array::from_shape_vec(dim, vec): an owned array in standard layout.
from_shape_vec(shape, vec) == Tensor(shape, default_strides(shape), 0, vec)

\* to_owned / into_owned: an owned array with the same shape and elements.
\* (ndarray keeps the memory order of a contiguous source; the copy is
\* observed through indexing alone, so the row-major copy stands for it.)
to_owned(t) == from_shape_vec(t.shape, Iter(t))

\* view().permuted_axes(axes): axis axes[j] of the source becomes axis j.
\* ndarray panics unless axes is a permutation of 0..ndim.
permuted_axes(t, axes) ==
    IF /\ Len(axes) = ndim(t)
       /\ \A i \in 0..(ndim(t) - 1) : \E j \in 1..Len(axes) : axes[j] = i
    THEN Tensor([j \in 1..Len(axes) |-> t.shape[axes[j] + 1]],
                [j \in 1..Len(axes) |-> t.strides[axes[j] + 1]],
                t.offset, t.data)
    ELSE Panicked

\* sum_axis(Axis(axis)): the sum along one axis, which is removed.
\* Panics when the axis is out of bounds.
sum_axis(t, axis) ==
    IF axis >= ndim(t) THEN Panicked
    ELSE LET shape == RemoveAt(t.shape, axis + 1)
             n == t.shape[axis + 1]
         IN from_shape_vec(shape,
              [k \in 1..Prod(shape) |->
                 SumSeq([v \in 1..n |->
                    At(t, InsertAt(Unravel(k - 1, shape), axis + 1, v - 1))])])

\* as_slice_memory_order(): the elements as one slice when the array is
\* contiguous in memory (row-major or column-major here), None otherwise.
as_slice_memory_order(t) ==
    IF t.strides = default_strides(t.shape) \/ t.strides = fortran_strides(t.shape)
    THEN [some |-> TRUE,
          slice |-> SubSeq(t.data, t.offset + 1, t.offset + Prod(t.shape))]
    ELSE [some |-> FALSE]

\* ArrayView::from_shape(shape.strides(strides), slice): Err when the last
\* element lies outside the slice.
from_shape(shape, strides, slice) ==
    IF Prod(shape) = 0 THEN [ok |-> TRUE, view |-> Tensor(shape, strides, 0, slice)]
    ELSE IF SumSeq([a \in 1..Len(shape) |-> (shape[a] - 1) * strides[a]]) >= Len(slice)
         THEN [ok |-> FALSE]
         ELSE [ok |-> TRUE, view |-> Tensor(shape, strides, 0, slice)]

----------------------------------------------------------------------------
(* The operands a caller passes *)

\* Two element patterns, by row-major element number k (from 0).
Fills == {1, 2}

Val(fill, k) == (k + 1) * (k + fill)

\* A value no operand element has: the elements a sliced view skips.
Gap == -1000

\* The memory layouts: "C" an owned row-major array, "F" a column-major one
\* (a transposed view), "S" a view taking every second element along the
\* last axis of a row-major array (slice(s![.., ..;2])).
Layouts(shape) ==
    IF Len(shape) = 0 \/ Prod(shape) = 0 THEN {"C"} ELSE {"C", "F", "S"}

MkTensor(shape, layout, fill) ==
    LET n == Len(shape)
        N == Prod(shape)
    IN CASE layout = "C" ->
              Tensor(shape, default_strides(shape), 0,
                     [p \in 1..N |-> Val(fill, p - 1)])
         [] layout = "F" ->
              Tensor(shape, fortran_strides(shape), 0,
                     [p \in 1..N |-> Val(fill, Ravel(UnravelF(p - 1, shape), shape))])
         [] layout = "S" ->
              LET base == [shape EXCEPT ![n] = 2 * shape[n]]
              IN Tensor(shape, [default_strides(base) EXCEPT ![n] = 2], 0,
                        [p \in 1..Prod(base) |->
                           IF ((p - 1) % (2 * shape[n])) % 2 = 0
                           THEN Val(fill, ((p - 1) \div (2 * shape[n])) * shape[n]
                                          + ((p - 1) % (2 * shape[n])) \div 2)
                           ELSE Gap])

Operands(shape) == { MkTensor(shape, l, f) : l \in Layouts(shape), f \in Fills }

\* All shapes of rank r with extents 0..MaxDim.
Shapes(r) == [1..r -> 0..MaxDim]

----------------------------------------------------------------------------
(* Sized contractions with one operand *)

\* SizedContraction { contraction: Contraction { operand_indices,
\* output_indices, .. }, output_size }.
SizedContraction(operand, output, size) ==
    [operand_indices |-> <<operand>>, output_indices |-> output,
     output_size |-> size]

\* The labels of a sequence.
LabelsOf(s) == { s[i] : i \in 1..Len(s) }

\* Operand label sequences, labels numbered by first occurrence.
OperandLabels ==
    UNION { { s \in [1..r -> 1..MaxRank] :
                \A i \in 1..r :
                    s[i] <= 1 + Cardinality({ s[j] : j \in 1..(i - 1) }) }
            : r \in 0..MaxRank }

\* Output label sequences over the labels L: each label at most once.
OutputLabels(L) ==
    UNION { { s \in [1..r -> L] : \A i, j \in 1..r : i # j => s[i] # s[j] }
            : r \in 0..Cardinality(L) }

\* The validated single-operand contractions: every output label occurs in
\* the operand, no output label repeats, every label has one size.
SizedContractions ==
    { SizedContraction(operand, output, size) :
        <<operand, output, size>> \in
            UNION { { <<o, out, sz>> : out \in OutputLabels(LabelsOf(o)),
                                      sz \in [LabelsOf(o) -> 0..MaxDim] }
                    : o \in OperandLabels } }

\* The shape of the operand of a sized contraction.
OperandShape(sc) ==
    [a \in 1..Len(sc.operand_indices[1]) |->
        sc.output_size[sc.operand_indices[1][a]]]

\* ClassifiedSingletonContraction::new: every axis of the operand tagged
\* OutputInfo (its label is in the output) or SummedInfo, the output labels,
\* and the distinct summed labels in operand order.
ClassifiedSingletonContraction_new(sc) ==
    LET operand == sc.operand_indices[1]
        output == sc.output_indices
        summed == { i \in 1..Len(operand) :
                      /\ Position(output, operand[i]) = -1
                      /\ \A j \in 1..(i - 1) : operand[j] # operand[i] }
        RECURSIVE Pick(_, _)
        Pick(i, acc) == IF i > Len(operand) THEN acc
                        ELSE Pick(i + 1, IF i \in summed
                                         THEN Append(acc, [index |-> operand[i]])
                                         ELSE acc)
    IN [input_indices |->
           [i \in 1..Len(operand) |->
              [index |-> operand[i],
               index_info |-> IF Position(output, operand[i]) = -1
                              THEN "SummedInfo" ELSE "OutputInfo"]],
        output_indices |-> [k \in 1..Len(output) |-> [index |-> output[k]]],
        summed_indices |-> Pick(1, <<>>)]

----------------------------------------------------------------------------
(* The contractors *)

Identity_new == [kind |-> "Identity"]

\* Identity::view_singleton: tensor.view()
Identity_view_singleton(self, tensor) == tensor

\* Permutation::new(sc)
Permutation_new(sc) ==
    LET operand == sc.operand_indices[1]
        output == sc.output_indices
        permutation == [k \in 1..Len(output) |-> Position(operand, output[k])]
    IN IF Len(sc.operand_indices) # 1 THEN Panicked
       ELSE IF Len(operand) # Len(output) THEN Panicked
       ELSE IF \E k \in 1..Len(output) : permutation[k] = -1 THEN Panicked
       ELSE [panic |-> FALSE, kind |-> "Permutation", permutation |-> permutation]

\* Permutation::from_indices(permutation)
Permutation_from_indices(permutation) ==
    [panic |-> FALSE, kind |-> "Permutation", permutation |-> permutation]

\* Permutation::view_singleton
Permutation_view_singleton(self, tensor) ==
    permuted_axes(tensor, self.permutation)

\* A Permutation that copies the tensor without permuting its axes.
Permutation_contract_singleton_unpermuted(self, tensor) == to_owned(tensor)

\* Permutation::contract_singleton
Permutation_contract_singleton(self, tensor) ==
    LET v == permuted_axes(tensor, self.permutation)
    IN IF IsPanic(v) THEN Panicked ELSE to_owned(v)

\* A Summation whose adjusted axes are the original ones: the shift of the
\* later axes after each reduction is forgotten.
Summation_new_unadjusted(start_index, num_summed_axes) ==
    IF ~(num_summed_axes >= 1) THEN Panicked
    ELSE [panic |-> FALSE, kind |-> "Summation",
          orig_axis_list |->
              [i \in 1..num_summed_axes |-> start_index + i - 1],
          adjusted_axis_list |->
              [i \in 1..num_summed_axes |-> start_index + i - 1]]

\* Summation::new(start_index, num_summed_axes)
Summation_new(start_index, num_summed_axes) ==
    IF ~(num_summed_axes >= 1) THEN Panicked
    ELSE [panic |-> FALSE, kind |-> "Summation",
          orig_axis_list |->
              [i \in 1..num_summed_axes |-> start_index + i - 1],
          adjusted_axis_list |->
              [i \in 1..num_summed_axes |-> start_index]]

\* The loop of Summation::contract_singleton over adjusted_axis_list[1..].
RECURSIVE SumAxes(_, _)
SumAxes(result, axes) ==
    IF axes = <<>> \/ IsPanic(result) THEN result
    ELSE SumAxes(sum_axis(result, Head(axes)), Tail(axes))

\* A Summation that reduces its first axis and forgets the others.
Summation_contract_singleton_first_axis(self, tensor) ==
    sum_axis(tensor, self.adjusted_axis_list[1])

\* Summation::contract_singleton
Summation_contract_singleton(self, tensor) ==
    SumAxes(sum_axis(tensor, self.adjusted_axis_list[1]),
            Tail(self.adjusted_axis_list))

\* Diagonalization::new(sc)
Diagonalization_new(sc) ==
    LET operand == sc.operand_indices[1]
        output == sc.output_indices
        mapping == [a \in 1..Len(operand) |-> Position(output, operand[a])]
    IN IF Len(sc.operand_indices) # 1 THEN Panicked
       ELSE IF \E a \in 1..Len(operand) : mapping[a] = -1 THEN Panicked
       ELSE [panic |-> FALSE, kind |-> "Diagonalization",
             input_to_output_mapping |-> mapping,
             output_shape |-> [k \in 1..Len(output) |-> sc.output_size[output[k]]]]

\* Diagonalization::view_singleton
Diagonalization_view_singleton(self, tensor) ==
    LET strides == [k \in 1..Len(self.output_shape) |->
                      SumSeq([a \in 1..ndim(tensor) |->
                                IF self.input_to_output_mapping[a] = k - 1
                                THEN tensor.strides[a] ELSE 0])]
        data_slice == as_slice_memory_order(tensor)
    IN IF \E a \in 1..ndim(tensor) : ~(tensor.strides[a] > 0) THEN Panicked
       ELSE IF ~data_slice.some THEN Panicked
       ELSE LET v == from_shape(self.output_shape, strides, data_slice.slice)
            IN IF v.ok THEN v.view ELSE Panicked

\* Diagonalization::contract_singleton
Diagonalization_contract_singleton(self, tensor) ==
    LET cloned_tensor == from_shape_vec(tensor.shape, Iter(tensor))
        v == Diagonalization_view_singleton(self, cloned_tensor)
    IN IF IsPanic(v) THEN Panicked ELSE to_owned(v)

\* A ViewAndSummation that never permutes: its view is always Identity.
ViewAndSummation_new_unpermuted(csc) ==
    LET summation == Summation_new(Len(csc.output_indices), Len(csc.summed_indices))
    IN IF IsPanic(summation) THEN Panicked
       ELSE [panic |-> FALSE, kind |-> "ViewAndSummation",
             view |-> Identity_new, summation |-> summation]

\* ViewAndSummation::new(csc)
ViewAndSummation_new(csc) ==
    LET RECURSIVE Summed(_, _)
        Summed(i, acc) ==
            IF i > Len(csc.input_indices) THEN acc
            ELSE Summed(i + 1, IF csc.input_indices[i].index_info = "SummedInfo"
                               THEN Append(acc, i - 1) ELSE acc)
        outs == [k \in 1..Len(csc.output_indices) |->
                   Position([i \in 1..Len(csc.input_indices) |->
                                csc.input_indices[i].index],
                            csc.output_indices[k].index)]
        permutation == Summed(1, outs)
        summation == Summation_new(Len(csc.output_indices), Len(csc.summed_indices))
    IN IF \E k \in 1..Len(outs) : outs[k] = -1 THEN Panicked
       ELSE IF IsPanic(summation) THEN Panicked
       ELSE [panic |-> FALSE, kind |-> "ViewAndSummation",
             view |-> IF permutation = Range(Len(csc.input_indices))
                      THEN Identity_new
                      ELSE Permutation_from_indices(permutation),
             summation |-> summation]

\* ViewAndSummation::contract_singleton
ViewAndSummation_contract_singleton(self, tensor) ==
    LET viewed_singleton ==
            IF self.view.kind = "Identity"
            THEN Identity_view_singleton(self.view, tensor)
            ELSE Permutation_view_singleton(self.view, tensor)
    IN IF IsPanic(viewed_singleton) THEN Panicked
       ELSE Summation_contract_singleton(self.summation, viewed_singleton)

\* SingletonContraction::new(sc): the boxed op.
SingletonContraction_new(sc) ==
    LET csc == ClassifiedSingletonContraction_new(sc)
    IN IF Len(csc.summed_indices) = 0
       THEN Permutation_new(sc)
       ELSE ViewAndSummation_new(csc)

\* contract_singleton through the trait object: the op's own method.
contract_singleton(self, tensor) ==
    CASE self.kind = "Permutation" -> Permutation_contract_singleton(self, tensor)
      [] self.kind = "ViewAndSummation" -> ViewAndSummation_contract_singleton(self, tensor)
      [] self.kind = "Summation" -> Summation_contract_singleton(self, tensor)
      [] self.kind = "Diagonalization" -> Diagonalization_contract_singleton(self, tensor)

----------------------------------------------------------------------------
(* tensordot *)

\* The axes 0..r-1 that are not in axes, in order.
Uncontracted(r, axes) ==
    LET RECURSIVE Keep(_, _)
        Keep(i, acc) == IF i >= r THEN acc
                        ELSE Keep(i + 1, IF Position(axes, i) = -1
                                         THEN Append(acc, i) ELSE acc)
    IN Keep(0, <<>>)

\* TensordotGeneral::from_shapes_and_axis_numbers: the operands' axes are
\* permuted to [uncontracted][contracted] (lhs) and [contracted][uncontracted]
\* (rhs); the product's axes are permuted by output_order.
TensordotGeneral_from_shapes_and_axis_numbers(lhs_shape, rhs_shape, lhs_axes, rhs_axes, output_order) ==
    LET l == Len(lhs_shape)
        r == Len(rhs_shape)
        k == Len(lhs_axes)
        valid(axes, n) ==
            /\ \A i \in 1..Len(axes) : axes[i] \in 0..(n - 1)
            /\ \A i, j \in 1..Len(axes) : i # j => axes[i] # axes[j]
    IN IF /\ Len(rhs_axes) = k
          /\ valid(lhs_axes, l) /\ valid(rhs_axes, r)
          /\ \A i \in 1..k : lhs_shape[lhs_axes[i] + 1] = rhs_shape[rhs_axes[i] + 1]
          /\ Len(output_order) = l + r - 2 * k
       THEN [panic |-> FALSE,
             lhs_permutation |-> Uncontracted(l, lhs_axes) \o lhs_axes,
             rhs_permutation |-> rhs_axes \o Uncontracted(r, rhs_axes),
             num_contracted |-> k,
             output_permutation |-> output_order]
       ELSE Panicked

\* TensordotGeneral::contract_pair: permute, flatten each block to one axis,
\* multiply the two matrices, unflatten, permute to the output order.
TensordotGeneral_contract_pair(self, lhs, rhs) ==
    LET pl == permuted_axes(lhs, self.lhs_permutation)
        pr == permuted_axes(rhs, self.rhs_permutation)
        k == self.num_contracted
        lfree == SubSeq(pl.shape, 1, ndim(lhs) - k)
        rfree == SubSeq(pr.shape, k + 1, ndim(rhs))
        m == Prod(lfree)
        c == Prod(SubSeq(pr.shape, 1, k))
        n == Prod(rfree)
        L == Iter(pl)
        R == Iter(pr)
        product == from_shape_vec(lfree \o rfree,
                      [p \in 1..(m * n) |->
                         SumSeq([q \in 1..c |->
                            L[((p - 1) \div n) * c + q] * R[(q - 1) * n + ((p - 1) % n) + 1]])])
        out == permuted_axes(product, self.output_permutation)
    IN IF IsPanic(pl) \/ IsPanic(pr) THEN Panicked
       ELSE IF IsPanic(out) THEN Panicked ELSE to_owned(out)

\* An output order that runs backwards.
tensordot_output_order_reversed(l, r, k) ==
    IF l + r - 2 * k >= 0
    THEN { [panic |-> FALSE,
            order |-> [i \in 1..(l + r - 2 * k) |-> l + r - 2 * k - i]] }
    ELSE { [panic |-> TRUE, why |-> "attempt to subtract with overflow"],
           [panic |-> TRUE, why |-> "capacity overflow"] }

\* output_order of tensordot:
\* (0..(lhs.ndim() + rhs.ndim() - 2 * lhs_axes.len())).collect().
\* The usize subtraction overflows when 2 * len exceeds the ranks' sum.  What
\* follows depends on the build: with overflow checks the subtraction panics;
\* without them the length wraps to nearly 2^64 and collecting the range
\* panics with a capacity overflow.  The set of the possible outcomes.
tensordot_output_order(l, r, k) ==
    IF l + r - 2 * k >= 0 THEN { [panic |-> FALSE, order |-> Range(l + r - 2 * k)] }
    ELSE { [panic |-> TRUE, why |-> "attempt to subtract with overflow"],
           [panic |-> TRUE, why |-> "capacity overflow"] }

\* tensordot(lhs, rhs, lhs_axes, rhs_axes): the set of the possible outcomes,
\* each the returned tensor or a panic.
tensordot(lhs, rhs, lhs_axes, rhs_axes) ==
    IF Len(lhs_axes) # Len(rhs_axes)
    THEN { [panic |-> TRUE, why |-> "assertion failed: left == right"] }
    ELSE { IF IsPanic(output_order) THEN output_order
           ELSE LET tensordotter ==
                        TensordotGeneral_from_shapes_and_axis_numbers(
                            lhs.shape, rhs.shape, lhs_axes, rhs_axes,
                            output_order.order)
                IN IF IsPanic(tensordotter)
                   THEN [panic |-> TRUE, why |-> "TensordotGeneral"]
                   ELSE TensordotGeneral_contract_pair(tensordotter, lhs, rhs)
           : output_order \in tensordot_output_order(ndim(lhs), ndim(rhs), Len(lhs_axes)) }

----------------------------------------------------------------------------
(* The state: what a caller of the library holds *)

VARIABLES
    call,     \* the last operation performed
    arg,      \* what the contractor was built from: a sized contraction, or
              \* the start_index and num_summed_axes of a bare Summation
    op,       \* the contractor (`self`), Panicked when its constructor panicked
    tensor,   \* the operand tensor
    result,   \* what the last contract_singleton or tensordot returned
    again,    \* the last contract_singleton repeated the one before it
    pair      \* the arguments of the last tensordot

vars == <<call, arg, op, tensor, result, again, pair>>

Absent == [panic |-> FALSE, absent |-> TRUE]

IsTensor(x) == x # Absent /\ ~IsPanic(x)

Init ==
    /\ call = "none"
    /\ arg = Absent
    /\ op = Absent
    /\ tensor = Absent
    /\ result = Absent
    /\ again = FALSE
    /\ pair = Absent

\* SingletonContraction::new(&sc).  A behaviour follows one contractor from
\* its construction on: contractors share no state.
NewSingletonContraction ==
    /\ op = Absent
    /\ \E c \in SizedContractions :
        /\ arg' = c
        /\ op' = SingletonContraction_new(c)
    /\ call' = "SingletonContraction::new"
    /\ UNCHANGED <<tensor, result, again, pair>>

\* Diagonalization::new(&sc)
NewDiagonalization ==
    /\ op = Absent
    /\ \E c \in SizedContractions :
        /\ arg' = c
        /\ op' = Diagonalization_new(c)
    /\ call' = "Diagonalization::new"
    /\ UNCHANGED <<tensor, result, again, pair>>

\* Summation::new(start_index, num_summed_axes)
NewSummation ==
    /\ op = Absent
    /\ \E start_index \in 0..(MaxRank - 1), num_summed_axes \in 0..MaxRank :
        /\ start_index + num_summed_axes <= MaxRank + 1
        /\ arg' = [panic |-> FALSE, start_index |-> start_index,
                    num_summed_axes |-> num_summed_axes]
        /\ op' = Summation_new(start_index, num_summed_axes)
    /\ call' = "Summation::new"
    /\ UNCHANGED <<tensor, result, again, pair>>

\* The operands a contractor is applied to: the validated operand of its
\* sized contraction; any tensor for a bare Summation.
IsSizedContraction(x) == "operand_indices" \in DOMAIN x

OperandsFor(c) ==
    IF ~IsSizedContraction(c)
    THEN UNION { Operands(shape) : shape \in UNION { Shapes(r) : r \in 0..MaxRank } }
    ELSE Operands(OperandShape(c))

\* The caller takes a view of an operand tensor: any operand the contractor
\* is for at first, later another one of the same shape.
Bind ==
    /\ op # Absent /\ ~IsPanic(op)
    /\ \E t \in (IF tensor = Absent THEN OperandsFor(arg) ELSE Operands(tensor.shape)) :
          tensor' = t
    /\ call' = "view"
    /\ result' = Absent
    /\ again' = FALSE
    /\ UNCHANGED <<arg, op, pair>>

\* A contractor that rewrites its adjusted axes during a call.
ConsumedSelf(self) ==
    IF self.kind = "Summation"
    THEN [self EXCEPT !.adjusted_axis_list = self.orig_axis_list]
    ELSE IF self.kind = "ViewAndSummation"
         THEN [self EXCEPT !.summation.adjusted_axis_list = self.summation.orig_axis_list]
         ELSE self

\* fn contract_singleton(&self, tensor: &ArrayViewD<A>) -> ArrayD<A>: both
\* arguments are shared borrows; the contractor and the tensor after the call.
BorrowedSelf(self) == self

BorrowedTensor(t) == t

\* op.contract_singleton(&tensor)
ContractSingleton ==
    /\ call \in {"view", "contract_singleton"}
    /\ call' = "contract_singleton"
    /\ result' = contract_singleton(op, tensor)
    /\ op' = BorrowedSelf(op)
    /\ tensor' = BorrowedTensor(tensor)
    /\ again' = (call = "contract_singleton")
    /\ UNCHANGED <<arg, pair>>

Next ==
    \/ NewSingletonContraction
    \/ NewDiagonalization
    \/ NewSummation
    \/ Bind
    \/ ContractSingleton

Spec == Init /\ [][Next]_vars

\* Sequences of distinct axes of a tensor of rank r.
AxisLists(r) ==
    UNION { { s \in [1..k -> 0..(r - 1)] : \A i, j \in 1..k : i # j => s[i] # s[j] }
            : k \in 0..r }

\* Axis lists of up to MaxPairRank + 1 axes of a tensor of rank r, the axes
\* taken in turn (0, 1, .., r-1, 0, ..): longer than the rank, an axis repeats.
AnyAxisLists(r) ==
    IF r = 0 THEN {<<>>}
    ELSE { [i \in 1..k |-> (i - 1) % r] : k \in 0..(MaxPairRank + 1) }

\* tensordot(&lhs, &rhs, &lhs_axes, &rhs_axes) with well-formed arguments:
\* distinct axes, as many of lhs as of rhs, paired axes of equal extent.
TensordotCall ==
    /\ call = "none"
    /\ \E l, r \in 0..MaxPairRank :
        \E lhs_shape \in [1..l -> 1..MaxDim], rhs_shape \in [1..r -> 1..MaxDim] :
          \E lhs_axes \in AxisLists(l), rhs_axes \in AxisLists(r) :
              /\ Len(lhs_axes) = Len(rhs_axes)
              /\ \A i \in 1..Len(lhs_axes) :
                    lhs_shape[lhs_axes[i] + 1] = rhs_shape[rhs_axes[i] + 1]
              /\ LET lhs == MkTensor(lhs_shape, "C", 1)
                     rhs == MkTensor(rhs_shape, "C", 2)
                 IN /\ pair' = [panic |-> FALSE, lhs |-> lhs, rhs |-> rhs,
                                lhs_axes |-> lhs_axes, rhs_axes |-> rhs_axes]
                    /\ result' \in tensordot(lhs, rhs, lhs_axes, rhs_axes)
    /\ call' = "tensordot"
    /\ UNCHANGED <<arg, op, tensor, again>>

\* tensordot with axis lists that do not match the tensors: lists of
\* different lengths, or more axes than an operand has.
TensordotBadAxes ==
    /\ call = "none"
    /\ \E l, r \in 0..MaxPairRank :
        \E lhs_axes \in AnyAxisLists(l), rhs_axes \in AnyAxisLists(r) :
          /\ \/ Len(lhs_axes) # Len(rhs_axes)
             \/ Len(lhs_axes) > l
             \/ Len(rhs_axes) > r
          /\ LET lhs == MkTensor([a \in 1..l |-> MaxDim], "C", 1)
                 rhs == MkTensor([a \in 1..r |-> MaxDim], "C", 2)
             IN /\ pair' = [panic |-> FALSE, lhs |-> lhs, rhs |-> rhs,
                            lhs_axes |-> lhs_axes, rhs_axes |-> rhs_axes]
                /\ result' \in tensordot(lhs, rhs, lhs_axes, rhs_axes)
    /\ call' = "tensordot"
    /\ UNCHANGED <<arg, op, tensor, again>>

NextPair ==
    \/ TensordotCall
    \/ TensordotBadAxes

SpecPair == Init /\ [][NextPair]_vars

----------------------------------------------------------------------------
(* What the properties speak of *)

Distinct(s) == \A i, j \in 1..Len(s) : i # j => s[i] # s[j]

\* The operand and output label sequences of the contraction in hand.
Operand == arg.operand_indices[1]

Output == arg.output_indices

\* The sizes of the output labels, in output order.
OutputShape == [k \in 1..Len(Output) |-> arg.output_size[Output[k]]]

\* The contractor in hand came from SingletonContraction::new.
BySingletonContraction ==
    /\ IsSizedContraction(arg)
    /\ IF IsPanic(op) THEN call = "SingletonContraction::new"
       ELSE op.kind \in {"Permutation", "ViewAndSummation"}

\* The contractor in hand came from Diagonalization::new.
ByDiagonalization ==
    /\ IsSizedContraction(arg)
    /\ IF IsPanic(op) THEN call = "Diagonalization::new"
       ELSE op.kind = "Diagonalization"

\* The contractor in hand is a bare Summation.
BySummation == arg # Absent /\ ~IsSizedContraction(arg)

\* contract_singleton has just returned (or panicked).
Returned == call = "contract_singleton"

\* The distinct labels of the operand that are not output labels, in
\* operand order.
SummedLabels ==
    LET RECURSIVE F(_, _)
        F(i, acc) ==
            IF i > Len(Operand) THEN acc
            ELSE F(i + 1, IF Position(Output, Operand[i]) = -1 /\ Position(acc, Operand[i]) = -1
                          THEN Append(acc, Operand[i]) ELSE acc)
    IN F(1, <<>>)

\* The axes (0-based) of the operand whose label is not an output label.
SummedAxes ==
    LET RECURSIVE F(_, _)
        F(i, acc) ==
            IF i > Len(Operand) THEN acc
            ELSE F(i + 1, IF Position(Output, Operand[i]) = -1
                          THEN Append(acc, i - 1) ELSE acc)
    IN F(1, <<>>)

\* The operand index that the output index o selects: axis a takes the value
\* of its label.
KeptIndex(o) == [a \in 1..Len(Operand) |-> o[Position(Output, Operand[a]) + 1]]

\* Einstein summation at the output index o: the sum, over all values of the
\* summed labels, of the operand element that o and those values select.
EinsumAt(o) ==
    LET sizes == [q \in 1..Len(SummedLabels) |-> arg.output_size[SummedLabels[q]]]
    IN SumSeq([n \in 1..Prod(sizes) |->
          At(tensor,
             [a \in 1..Len(Operand) |->
                IF Position(Output, Operand[a]) # -1
                THEN o[Position(Output, Operand[a]) + 1]
                ELSE Unravel(n - 1, sizes)[Position(SummedLabels, Operand[a]) + 1]])])

----------------------------------------------------------------------------
(* Properties *)

\* C1: for every validated single-operand contraction (labels distinct or
\* repeated), SingletonContraction::new(sc).contract_singleton(t) completes
\* and returns a tensor whose shape is the output labels' sizes in output
\* order.
C1_ResultShape ==
    BySingletonContraction =>
        /\ ~IsPanic(op)
        /\ Returned => IsTensor(result) /\ result.shape = OutputShape

\* C2: pure permutation.  For an operand with distinct labels and an output
\* that reorders exactly those labels, the result has the output labels'
\* sizes and result[o] = input[i] with i[a] = o[k] where output label k is
\* operand label a ("ij->ji": result[j][i] = input[i][j]).
C2_PurePermutation ==
    (BySingletonContraction /\ Distinct(Operand) /\ Len(Output) = Len(Operand)) =>
        /\ ~IsPanic(op)
        /\ Returned =>
             /\ IsTensor(result)
             /\ result.shape = OutputShape
             /\ \A o \in Indices(OutputShape) : At(result, o) = At(tensor, KeptIndex(o))

\* "ij->ji" has been applied to a sliced 2 x 2 view and returned its transpose.
C2_Witness ==
    /\ BySingletonContraction /\ Returned /\ IsTensor(result)
    /\ Operand = <<1, 2>> /\ Output = <<2, 1>>
    /\ tensor.shape = <<2, 2>> /\ tensor.strides = <<4, 2>>
    /\ At(result, <<0, 1>>) = At(tensor, <<1, 0>>)
    /\ At(tensor, <<1, 0>>) # At(tensor, <<0, 1>>)

\* C3: diagonal extraction.  The singleton contraction "ii->i" of an n x n
\* operand returns a 1-D tensor of length n whose k-th element is the
\* operand's (k, k) element.
C3_DiagonalExtraction ==
    (BySingletonContraction /\ Operand = <<1, 1>> /\ Output = <<1>>) =>
        /\ ~IsPanic(op)
        /\ Returned =>
             /\ IsTensor(result)
             /\ result.shape = <<arg.output_size[1]>>
             /\ \A k \in 0..(arg.output_size[1] - 1) :
                    At(result, <<k>>) = At(tensor, <<k, k>>)

\* C4: full summation.  The singleton contraction "ij->" of a 2-D operand
\* returns a 0-dimensional tensor holding the sum of all its elements.
C4_FullSummation ==
    (BySingletonContraction /\ Operand = <<1, 2>> /\ Output = <<>>) =>
        /\ ~IsPanic(op)
        /\ Returned =>
             /\ IsTensor(result)
             /\ result.shape = <<>>
             /\ At(result, <<>>) =
                  SumSeq([i \in 1..tensor.shape[1] |->
                     SumSeq([j \in 1..tensor.shape[2] |-> At(tensor, <<i - 1, j - 1>>)])])

\* "ij->" has been applied to a column-major 2 x 2 operand: 1 + 4 + 9 + 16.
C4_Witness ==
    /\ BySingletonContraction /\ Returned /\ IsTensor(result)
    /\ Operand = <<1, 2>> /\ Output = <<>>
    /\ tensor.shape = <<2, 2>> /\ tensor.strides = <<1, 2>>
    /\ tensor.data = <<1, 9, 4, 16>>
    /\ result.data = <<30>>

\* C8: permute, then sum.  For an operand with distinct labels of which at
\* least one is summed, the axis order built by ViewAndSummation::new is the
\* output labels' operand positions in output order followed by the summed
\* axes' positions; it is a permutation of 0..n-1; the view is Identity
\* exactly when the order is 0, 1, .., n-1; and result[o] is the sum over the
\* summed labels of the operand elements that o selects.
C8_PermuteThenSum ==
    (BySingletonContraction /\ Distinct(Operand) /\ Len(Output) < Len(Operand)) =>
        LET n == Len(Operand)
            order == [k \in 1..Len(Output) |-> Position(Operand, Output[k])] \o SummedAxes
        IN /\ ~IsPanic(op)
           /\ op.kind = "ViewAndSummation"
           /\ Len(order) = n
           /\ \A i \in 0..(n - 1) : \E j \in 1..n : order[j] = i
           /\ op.view.kind = "Identity" <=> order = Range(n)
           /\ op.view.kind # "Identity" =>
                 op.view.kind = "Permutation" /\ op.view.permutation = order
           /\ Returned =>
                /\ IsTensor(result)
                /\ result.shape = OutputShape
                /\ \A o \in Indices(OutputShape) : At(result, o) = EinsumAt(o)

\* "ij->j" has been applied to a sliced 2 x 2 view through the axis order
\* 1, 0: the column sums 1 + 9 and 4 + 16.
C8_Witness ==
    /\ BySingletonContraction /\ Returned /\ IsTensor(result)
    /\ Operand = <<1, 2>> /\ Output = <<2>>
    /\ op.kind = "ViewAndSummation" /\ op.view.kind = "Permutation"
    /\ op.view.permutation = <<1, 0>>
    /\ tensor.shape = <<2, 2>> /\ tensor.strides = <<4, 2>>
    /\ At(tensor, <<1, 1>>) = 16
    /\ result.data = <<10, 20>>

\* C9: Summation::new(start, k) with k >= 1 reduces axis `start` k times;
\* applied to a tensor of rank r >= start + k it removes the axes
\* start..start+k-1: the result's shape is the operand's without those k
\* extents and each element is the sum of the operand over the removed axes.
C9_SummationAxes ==
    (BySummation /\ arg.num_summed_axes >= 1) =>
        LET start == arg.start_index
            k == arg.num_summed_axes
        IN /\ ~IsPanic(op)
           /\ op.adjusted_axis_list = [i \in 1..k |-> start]
           /\ (Returned /\ ndim(tensor) >= start + k) =>
                LET shape == tensor.shape
                    kept == SubSeq(shape, 1, start) \o SubSeq(shape, start + k + 1, Len(shape))
                    removed == SubSeq(shape, start + 1, start + k)
                IN /\ IsTensor(result)
                   /\ ndim(result) = ndim(tensor) - k
                   /\ result.shape = kept
                   /\ \A o \in Indices(kept) :
                        At(result, o) =
                          SumSeq([n \in 1..Prod(removed) |->
                             At(tensor, SubSeq(o, 1, start) \o Unravel(n - 1, removed)
                                        \o SubSeq(o, start + 1, Len(o)))])

\* Summation::new(0, 2) has reduced a sliced 2 x 2 view to a scalar: the
\* second reduction was of axis 0 again.
C9_Witness ==
    /\ BySummation /\ Returned /\ IsTensor(result)
    /\ arg.start_index = 0 /\ arg.num_summed_axes = 2
    /\ tensor.shape = <<2, 2>> /\ tensor.strides = <<4, 2>>
    /\ result.shape = <<>> /\ Len(result.data) = 1

\* C10: Diagonalization on any layout.  For an operand all of whose labels
\* are output labels (labels may repeat), Diagonalization::contract_singleton
\* returns, for contiguous and non-contiguous operands alike and without an
\* error, the tensor with result[o] = input[x], x[a] = o[map[a]].
C10_DiagonalizationAnyLayout ==
    (ByDiagonalization /\ \A a \in 1..Len(Operand) : Position(Output, Operand[a]) # -1) =>
        /\ ~IsPanic(op)
        /\ Returned =>
             /\ IsTensor(result)
             /\ result.shape = OutputShape
             /\ \A o \in Indices(OutputShape) : At(result, o) = At(tensor, KeptIndex(o))

\* What does hold of Diagonalization::contract_singleton: the equation of C10
\* for the operands that have no axis of extent 0.
DiagonalizationOfNonEmpty ==
    (/\ ByDiagonalization /\ Returned
     /\ \A a \in 1..Len(Operand) : Position(Output, Operand[a]) # -1
     /\ \A a \in 1..ndim(tensor) : tensor.shape[a] >= 1) =>
        /\ IsTensor(result)
        /\ result.shape = OutputShape
        /\ \A o \in Indices(OutputShape) : At(result, o) = At(tensor, KeptIndex(o))

----------------------------------------------------------------------------
(* Properties of tensordot *)

\* The arguments of the last tensordot are well formed: as many lhs axes as
\* rhs axes, each list of distinct axes of its tensor.
WellFormedAxes ==
    /\ Len(pair.lhs_axes) = Len(pair.rhs_axes)
    /\ Distinct(pair.lhs_axes) /\ Distinct(pair.rhs_axes)
    /\ Len(pair.lhs_axes) <= ndim(pair.lhs)
    /\ Len(pair.rhs_axes) <= ndim(pair.rhs)

\* The index of an operand of tensordot that belongs to the result index o
\* and the contracted index c: `free` are the operand's uncontracted axes,
\* whose values start at o[from + 1].
PairIndex(o, c, axes, free, from, rank) ==
    [a \in 1..rank |->
        IF Position(axes, a - 1) # -1 THEN c[Position(axes, a - 1) + 1]
        ELSE o[from + Position(free, a - 1) + 1]]

\* C5: tensordot with k paired axes returns a tensor of rank
\* lhs.ndim + rhs.ndim - 2k whose axes are the uncontracted lhs axes in order
\* followed by the uncontracted rhs axes in order, each element the sum over
\* the contracted indices of the products of the lhs and rhs elements.
C5_Tensordot ==
    (call = "tensordot" /\ WellFormedAxes) =>
        LET lhs == pair.lhs
            rhs == pair.rhs
            k == Len(pair.lhs_axes)
            lfree == Uncontracted(ndim(lhs), pair.lhs_axes)
            rfree == Uncontracted(ndim(rhs), pair.rhs_axes)
            shape == [i \in 1..Len(lfree) |-> lhs.shape[lfree[i] + 1]]
                     \o [i \in 1..Len(rfree) |-> rhs.shape[rfree[i] + 1]]
            contracted == [i \in 1..k |-> lhs.shape[pair.lhs_axes[i] + 1]]
        IN /\ IsTensor(result)
           /\ ndim(result) = ndim(lhs) + ndim(rhs) - 2 * k
           /\ result.shape = shape
           /\ \A o \in Indices(shape) :
                At(result, o) =
                  SumSeq([n \in 1..Prod(contracted) |->
                     LET c == Unravel(n - 1, contracted)
                     IN At(lhs, PairIndex(o, c, pair.lhs_axes, lfree, 0, ndim(lhs)))
                        * At(rhs, PairIndex(o, c, pair.rhs_axes, rfree, Len(lfree), ndim(rhs)))])

\* A 2 x 1 and a 1 x 2 matrix have been multiplied over lhs axis 1 and rhs
\* axis 0, and a 2 x 2 matrix came back.
C5_Witness ==
    /\ call = "tensordot" /\ WellFormedAxes /\ IsTensor(result)
    /\ pair.lhs.shape = <<2, 1>> /\ pair.rhs.shape = <<1, 2>>
    /\ pair.lhs_axes = <<1>> /\ pair.rhs_axes = <<0>>
    /\ result.shape = <<2, 2>>
    /\ At(result, <<1, 0>>) = At(pair.lhs, <<1, 0>>) * At(pair.rhs, <<0, 0>>)

\* The axis lists do not match the tensors: lists of different lengths, or
\* more contracted axes than an operand has dimensions.
AxesMismatch ==
    \/ Len(pair.lhs_axes) # Len(pair.rhs_axes)
    \/ Len(pair.lhs_axes) > ndim(pair.lhs)
    \/ Len(pair.rhs_axes) > ndim(pair.rhs)

\* A recoverable error value handed back to the caller.
IsErrorValue(x) == ~IsPanic(x) /\ "error" \in DOMAIN x

\* C6: a tensordot whose axis lists do not match the tensors reports the
\* mismatch to the caller as a recoverable error value, and does not end in a
\* panic or an arithmetic overflow.
C6_MismatchIsReported ==
    (call = "tensordot" /\ AxesMismatch) => IsErrorValue(result)

====
